---------------------------- MODULE Spec2Model ----------------------------
(***************************************************************************)
(* Model of the eCAS ingestion backend (src/backend): the cross-file       *)
(* de-duplication context (dedupe_context.py), the three issuer processors *)
(* (nsdl_parser.py, cdsl_parser.py, cams_parser.py) and the legacy parser  *)
(* behind the upload routes (ecasparser.py).                               *)
(*                                                                         *)
(* Numbers: every decimal printed in a statement is an integer count of    *)
(* thousandths (100.000 units = 100000, Rs 10.50 = 10500).                 *)
(* Statement text: the regular expressions of the parsers are modelled on  *)
(* rows that are already tokenised (ISIN, name features, numeric columns); *)
(* a pattern matches a row when the row has the columns the pattern asks.  *)
(***************************************************************************)
EXTENDS Naturals, Integers, Sequences, FiniteSets, TLC

\* ------------------------------------------------------------------------
\* Bounds of the model
\* ------------------------------------------------------------------------
MaxRows == 2
MaxFiles == 2
MaxBatches == 2
MaxWords == 2

\* ------------------------------------------------------------------------
\* Generic helpers
\* ------------------------------------------------------------------------
RECURSIVE SumSeq(_)
SumSeq(s) == IF s = <<>> THEN 0 ELSE Head(s) + SumSeq(Tail(s))

RECURSIVE MapValuation(_)
MapValuation(hs) ==
    IF hs = <<>> THEN <<>> ELSE <<Head(hs).valuation>> \o MapValuation(Tail(hs))

SumValuation(hs) == SumSeq(MapValuation(hs))

SeqsUpTo(S, n) == UNION {[1..k -> S] : k \in 1..n}

\* round(x, 2) on a value held in thousandths: nearest multiple of 10,
\* a tie going to the even hundredth
Round2(x) ==
    LET q == x \div 10
        r == x % 10
    IN  IF r < 5 THEN 10 * q
        ELSE IF r > 5 THEN 10 * (q + 1)
        ELSE IF q % 2 = 0 THEN 10 * q ELSE 10 * (q + 1)

\* round(x, 6) and round(x, 4) on a value printed with three decimals
Round6(x) == x

\* ------------------------------------------------------------------------
\* ISINs, names, holdings
\* ------------------------------------------------------------------------
\* An ISIN is (prefix, serial, folio suffix); the empty string is NoIsin.
\* folio > 0 models the "_<n>" suffix nsdl_parser.py appends to folio rows.
NoIsin == [pfx |-> "", ser |-> 0, folio |-> 0]
Isin(p, n) == [pfx |-> p, ser |-> n, folio |-> 0]

\* a holding dict without the "source_file" key: h.get("source_file") is None
NoSource == "none"

Sources == {"A.pdf", "B.pdf"}

\* the dict the parsers append; no parser sets "source_file"
Holding(t, i, n, u, nv, inv, v) ==
    [type |-> t, isin_no |-> i, fund_name |-> n, units |-> u, nav |-> nv,
     invested_amount |-> inv, valuation |-> v, source_file |-> NoSource]

\* float product of two printed decimals, in thousandths
Mul(a, b) == (a * b) \div 1000

\* round(a * b, 2), in thousandths: a * b is in millionths
RoundMul2(a, b) ==
    LET x == a * b
        q == x \div 10000
        r == x % 10000
    IN  IF r < 5000 THEN 10 * q
        ELSE IF r > 5000 THEN 10 * (q + 1)
        ELSE IF q % 2 = 0 THEN 10 * q ELSE 10 * (q + 1)

Abs(x) == IF x < 0 THEN 0 - x ELSE x
Min(a, b) == IF a < b THEN a ELSE b

\* ------------------------------------------------------------------------
\* dedupe_context.py
\* ------------------------------------------------------------------------
normalize_isin(isin) == isin

\* fund_name.strip().upper() with whitespace runs and dashes normalised
NameNorm(n) ==
    CASE n = "Pension Fund  TIER I" -> "PENSION FUND TIER I"
      [] n = "Pension Fund TIER I" -> "PENSION FUND TIER I"
      [] OTHER -> n

NoKey == [isin |-> NoIsin, htype |-> "", name |-> "", units |-> 0, valuation |-> 0]

holding_key(h) ==
    LET isin == normalize_isin(h.isin_no)
        units == Round6(h.units)
        valuation == Round2(h.valuation)
    IN  IF isin # NoIsin
        THEN [isin |-> isin, htype |-> "", name |-> "",
              units |-> units, valuation |-> valuation]
        ELSE IF h.fund_name = "" \/ h.type = ""
        THEN NoKey
        ELSE [isin |-> NoIsin, htype |-> h.type, name |-> NameNorm(h.fund_name),
              units |-> units, valuation |-> valuation]

\* _seen.get(key, set())
SeenSources(seen_, key) == {e.source : e \in {x \in seen_ : x.key = key}}

\* a duplicate test that forgets the same-file exemption
is_duplicate_any_file(seen_, h) ==
    /\ holding_key(h) # NoKey
    /\ h.source_file # NoSource
    /\ SeenSources(seen_, holding_key(h)) # {}

is_duplicate(seen_, h) ==
    LET key == holding_key(h)
        source == h.source_file
    IN  IF key = NoKey \/ source = NoSource
        THEN FALSE
        ELSE SeenSources(seen_, key) # {} /\ source \notin SeenSources(seen_, key)

mark_seen(seen_, h) ==
    LET key == holding_key(h)
        source == h.source_file
    IN  IF key # NoKey /\ source # NoSource
        THEN seen_ \cup {[key |-> key, source |-> source]}
        ELSE seen_


\* ------------------------------------------------------------------------
\* cdsl_parser.py / ecasparser.py : statement text -> holdings
\* ------------------------------------------------------------------------
\* A row of the whitespace-collapsed CDSL text:
\*   kind "MF"     a match of mf_pattern  (name..Fund, INF isin, 4 decimals)
\*   kind "EQ"     a match of eq_pattern  (INE isin, company, 3 decimals)
\*   kind "FOOTER" the printed "Total Portfolio Value <value>" line
\*   kind "JUNK"   text no pattern matches
CdslRow(k, i, n, u, nv, inv, v) ==
    [kind |-> k, isin |-> i, name |-> n, units |-> u, nav |-> nv,
     invested |-> inv, value |-> v]

\* total_match = re.search(r"Total Portfolio Value...", text)
FooterTotal(rows) ==
    LET f == SelectSeq(rows, LAMBDA r : r.kind = "FOOTER")
    IN  IF f = <<>> THEN 0 ELSE f[1].value

CdslMutualFund(r) ==
    Holding("Mutual Fund", r.isin, r.name, r.units, r.nav, r.invested, r.value)

\* an equity branch that keeps the columns as the pattern captured them
CdslEquityUnswapped(r) ==
    LET val2 == IF r.value = 0 /\ r.units # 0 /\ r.nav # 0
                THEN Mul(r.units, r.nav) ELSE r.value
    IN  Holding("Shares", r.isin, r.name, r.units, r.nav, 0, val2)

\* the equity branch: swap when nav > value, then backfill a zero value
CdslEquity(r) ==
    LET swap == r.nav > r.value
        nav1 == IF swap THEN r.value ELSE r.nav
        val1 == IF swap THEN r.nav ELSE r.value
        val2 == IF val1 = 0 /\ r.units # 0 /\ nav1 # 0
                THEN Mul(r.units, nav1) ELSE val1
    IN  Holding("Shares", r.isin, r.name, r.units, nav1, 0, val2)

CdslHoldings(rows) ==
    LET mf == SelectSeq(rows, LAMBDA r : r.kind = "MF")
        eq == SelectSeq(rows, LAMBDA r : r.kind = "EQ" /\ r.name # "Portfolio Value")
    IN  [i \in 1..Len(mf) |-> CdslMutualFund(mf[i])]
        \o [i \in 1..Len(eq) |-> CdslEquity(eq[i])]

\* a parser that trusts the printed footer when there is one
parse_cdsl_trusting_footer(rows) ==
    LET holdings == CdslHoldings(rows)
    IN  [holdings |-> holdings,
         total_value |-> IF SelectSeq(rows, LAMBDA r : r.kind = "FOOTER") # <<>>
                         THEN FooterTotal(rows) ELSE SumValuation(holdings)]

parse_cdsl_ecas_text(rows) ==
    LET holdings == CdslHoldings(rows)
    IN  [holdings |-> holdings, total_value |-> SumValuation(holdings)]

\* ecasparser.py keeps the same two loops and sums the holdings of type "Equity"
parse_ecas_text(rows) ==
    LET holdings == CdslHoldings(rows)
    IN  [holdings |-> holdings,
         total_value |->
             SumValuation(SelectSeq(holdings, LAMBDA h : h.type = "Equity"))]

\* ------------------------------------------------------------------------
\* nsdl_parser.py : statement text -> holdings
\* ------------------------------------------------------------------------
\* A row of the NSDL text: an ISIN (NoIsin for a pension row), a name, an
\* optional integer folio-number column (0 = absent) and the numeric columns
\* that follow.  [\d,]+\.?\d* accepts the folio number as a numeric column too.
NsdlRow(i, n, f, c) == [isin |-> i, name |-> n, folioNo |-> f, nums |-> c]

Cols(r) == IF r.folioNo = 0 THEN r.nums ELSE <<r.folioNo>> \o r.nums

\* name features the patterns test (re.IGNORECASE)
HasFundSchemePlan(n) ==
    n \in {"HDFC Flexi Cap Fund", "Axis Bluechip Fund # Direct", "SBI Savings Plan"}
HasFund(n) == n \in {"HDFC Flexi Cap Fund", "Axis Bluechip Fund # Direct"}
HasTier(n) == n \in {"Pension Fund TIER I", "Pension Fund  TIER I", "Bonus TIER I"}
HasPension(n) == n \in {"Pension Fund TIER I", "Pension Fund  TIER I"}
HasPercent(n) == n \in {"GOI 7.26% BOND"}

\* "<units> (<col>){lo,hi} <nav> <value>": the middle group is greedy
MidMatches(c, lo) == Len(c) >= lo + 3
MidTaken(c, hi) == IF hi = 0 THEN Len(c) - 3 ELSE Min(hi, Len(c) - 3)
MidNav(c, hi) == c[MidTaken(c, hi) + 2]
MidValue(c, hi) == c[MidTaken(c, hi) + 3]

\* hi = 0 stands for a group without upper limit, {2,}
equity_patterns == << [lo |-> 8, hi |-> 8], [lo |-> 2, hi |-> 0], [lo |-> 2, hi |-> 8] >>
mf_patterns == << [lo |-> 2, hi |-> 0, fund |-> TRUE], [lo |-> 2, hi |-> 6, fund |-> FALSE] >>
gov_patterns == << [lo |-> 5, hi |-> 10], [lo |-> 3, hi |-> 12] >>
corp_patterns == << [lo |-> 5, hi |-> 10], [lo |-> 3, hi |-> 12] >>
\* the folio patterns: the number of numeric groups after the folio number
mf_folio_patterns == << [n |-> 7, fund |-> TRUE], [n |-> 5, fund |-> FALSE] >>

\* rows of `rows` a pattern matches, in text order (re.finditer)
EquityMatches(rows, pat) ==
    SelectSeq(rows, LAMBDA r : /\ r.isin.pfx \in {"INE", "IN0"}
                               /\ ~HasPercent(r.name)
                               /\ MidMatches(Cols(r), pat.lo))
FolioMatches(rows, pat) ==
    SelectSeq(rows, LAMBDA r : /\ r.isin.pfx = "INF"
                               /\ r.folioNo # 0
                               /\ (pat.fund => HasFundSchemePlan(r.name))
                               /\ Len(r.nums) >= pat.n)
MfMatches(rows, pat) ==
    SelectSeq(rows, LAMBDA r : /\ r.isin.pfx = "INF"
                               /\ (pat.fund => HasFund(r.name))
                               /\ MidMatches(Cols(r), pat.lo))
GovMatches(rows, pat) ==
    SelectSeq(rows, LAMBDA r : r.isin.pfx = "IN0" /\ MidMatches(Cols(r), pat.lo))
CorpMatches(rows, pat) ==
    SelectSeq(rows, LAMBDA r : r.isin.pfx = "INE" /\ MidMatches(Cols(r), pat.lo))
NpsMatches(rows) ==
    SelectSeq(rows, LAMBDA r : /\ HasTier(r.name) /\ r.folioNo = 0
                               /\ Len(r.nums) >= 3 /\ HasPension(r.name))

\* The names of the model and their words: a name is its words joined by
\* single spaces, so an empty word stands for one more blank (a run of
\* whitespace, or a blank at either end).  Every name is far shorter than the
\* 255 characters clean_fund_name keeps.
Words ==
    ("" :> <<>>)
    @@ ("ACME LTD" :> <<"ACME", "LTD">>)
    @@ ("ZED LTD" :> <<"ZED", "LTD">>)
    @@ ("WIDE LTD" :> <<"WIDE", "LTD">>)
    @@ ("BOND" :> <<"BOND">>)
    @@ ("GOI 7.26% BOND" :> <<"GOI", "7.26%", "BOND">>)
    @@ ("GOI 7.26% BOND # 2033" :> <<"GOI", "7.26%", "BOND", "#", "2033">>)
    @@ ("HDFC Flexi Cap Fund" :> <<"HDFC", "Flexi", "Cap", "Fund">>)
    @@ ("SBI Savings Plan" :> <<"SBI", "Savings", "Plan">>)
    @@ ("Axis Bluechip Fund # Direct" :> <<"Axis", "Bluechip", "Fund", "#", "Direct">>)
    @@ ("Axis Bluechip Fund -" :> <<"Axis", "Bluechip", "Fund", "-">>)
    @@ ("Axis Bluechip Fund" :> <<"Axis", "Bluechip", "Fund">>)
    @@ ("Pension Fund TIER I" :> <<"Pension", "Fund", "TIER", "I">>)
    @@ ("Pension Fund  TIER I" :> <<"Pension", "Fund", "", "TIER", "I">>)
    @@ ("Bonus TIER I" :> <<"Bonus", "TIER", "I">>)
    @@ ("Bank Of India" :> <<"Bank", "Of", "India">>)
    @@ ("Bank" :> <<"Bank">>)
    @@ ("Fund of" :> <<"Fund", "of">>)
    @@ ("# Direct" :> <<"#", "Direct">>)
    @@ ("HDFC Government Securities Fund # Direct" :>
            <<"HDFC", "Government", "Securities", "Fund", "#", "Direct">>)
    @@ ("SBI Govt Bond Fund Of India -" :>
            <<"SBI", "Govt", "Bond", "Fund", "Of", "India", "-">>)

\* the body of clean_fund_name on the words of a name
CleanedWords(words, htype) ==
    LET collapsed == SelectSeq(words, LAMBDA w : w # "")
        \* "govt" in name.lower() or "government" in name.lower()
        named_govt == \E i \in 1..Len(words) : words[i] \in {"Govt", "Government"}
        \* re.split(r"(\s*#|\s+O[Ff]\s+|\s+0[Ff]\s+)", name, flags=re.IGNORECASE)
        marker(i) == \/ collapsed[i] = "#"
                     \/ /\ collapsed[i] \in {"of", "Of", "OF", "oF", "0f", "0F"}
                        /\ 1 < i
                        /\ i < Len(collapsed)
        markers == {i \in 1..Len(collapsed) : marker(i)}
        cut == IF markers = {} THEN collapsed
               ELSE SubSeq(collapsed, 1, (CHOOSE i \in markers : \A k \in markers : i <= k) - 1)
        \* re.sub(r"[-,/:\s]+$", "", name)
        kept == {i \in 1..Len(cut) : cut[i] \notin {"-", ",", "/", ":"}}
        stripped == IF kept = {} THEN <<>>
                    ELSE SubSeq(cut, 1, CHOOSE i \in kept : \A k \in kept : k <= i)
    IN  IF words = <<>> THEN words
        ELSE IF htype = "Govt Security" \/ named_govt THEN collapsed
        ELSE stripped

\* clean_fund_name(name, htype)
clean_fund_name(n, htype) ==
    LET cleaned == CleanedWords(Words[n], htype)
    IN  CHOOSE name \in DOMAIN Words : Words[name] = cleaned

MidHolding(r, pat, htype) ==
    Holding(htype, r.isin, clean_fund_name(r.name, htype),
            Cols(r)[1], MidNav(Cols(r), pat.hi), 0, MidValue(Cols(r), pat.hi))

MidMatchesOf(rows, pat, htype) ==
    CASE htype = "Shares" -> EquityMatches(rows, pat)
      [] htype = "Mutual Fund" -> MfMatches(rows, pat)
      [] htype = "Govt Security" -> GovMatches(rows, pat)
      [] htype = "Corporate Bond" -> CorpMatches(rows, pat)

\* one loop "for pattern in patterns: for match in re.finditer(pattern, text)"
RECURSIVE MidFamily(_, _, _)
MidFamily(rows, pats, htype) ==
    IF pats = <<>> THEN <<>>
    ELSE LET m == MidMatchesOf(rows, Head(pats), htype)
         IN  [i \in 1..Len(m) |-> MidHolding(m[i], Head(pats), htype)]
             \o MidFamily(rows, Tail(pats), htype)

\* folio rows: isin gets the suffix _<folio_index>, the counter running over
\* both patterns
FolioHolding(r, idx) ==
    Holding("Mutual Fund Folio", [r.isin EXCEPT !.folio = idx],
            clean_fund_name(r.name, "Mutual Fund"),
            r.nums[1], r.nums[4], r.nums[3], r.nums[5])

RECURSIVE FolioFamily(_, _, _)
FolioFamily(rows, pats, first) ==
    IF pats = <<>> THEN <<>>
    ELSE LET m == FolioMatches(rows, Head(pats))
         IN  [i \in 1..Len(m) |-> FolioHolding(m[i], first + i - 1)]
             \o FolioFamily(rows, Tail(pats), first + Len(m))

NpsHolding(r) ==
    Holding("NPS", NoIsin, clean_fund_name(r.name, "NPS"),
            r.nums[1], r.nums[2], 0, r.nums[3])

\* "INFRASTRUCTURE" captured as an ISIN by INF[A-Z0-9]{9,}
InfraIsin == [pfx |-> "INF", ser |-> 0, folio |-> 0]
IsInfrastructure(i) == i.pfx = "INF" /\ i.ser = 0
IsinLen(i) == IF i = NoIsin THEN 0 ELSE IF IsInfrastructure(i) THEN 14
              ELSE IF i.folio = 0 THEN 12 ELSE 14

\* the final loop of the parser: the placeholder test and the backfill
NsdlValid(h) ==
    ~(h.isin_no # NoIsin /\ h.isin_no = InfraIsin /\ IsinLen(h.isin_no) < 10)
\* a final loop that leaves a zero valuation as parsed
NsdlNoBackfill(h) == h

NsdlBackfill(h) ==
    IF h.valuation = 0 /\ h.units > 0 /\ h.nav > 0
    THEN [h EXCEPT !.valuation = RoundMul2(h.units, h.nav)]
    ELSE h

\* the holdings list as the pattern loops leave it, before the final loop
NsdlRawHoldings(rows) ==
    MidFamily(rows, equity_patterns, "Shares")
    \o FolioFamily(rows, mf_folio_patterns, 1)
    \o MidFamily(rows, mf_patterns, "Mutual Fund")
    \o MidFamily(rows, gov_patterns, "Govt Security")
    \o [i \in 1..Len(NpsMatches(rows)) |-> NpsHolding(NpsMatches(rows)[i])]
    \o MidFamily(rows, corp_patterns, "Corporate Bond")

parse_nsdl_ecas_text(rows) ==
    LET eq    == MidFamily(rows, equity_patterns, "Shares")
        folio == FolioFamily(rows, mf_folio_patterns, 1)
        mf    == MidFamily(rows, mf_patterns, "Mutual Fund")
        gov   == MidFamily(rows, gov_patterns, "Govt Security")
        corp  == MidFamily(rows, corp_patterns, "Corporate Bond")
        kept == SelectSeq(NsdlRawHoldings(rows), NsdlValid)
    IN  [holdings |-> [i \in 1..Len(kept) |-> NsdlBackfill(kept[i])],
         \* total_value += float(value) in every loop but the pension one
         total_value |-> SumValuation(eq) + SumValuation(folio) + SumValuation(mf)
                         + SumValuation(gov) + SumValuation(corp)]

\* the two clean-ups at the head of process_nsdl_file
BaseIsin(i) == [i EXCEPT !.folio = 0]

NsdlSuppressFolioTwins(holdings) ==
    LET folio_isins == {BaseIsin(holdings[i].isin_no) :
                          i \in {j \in 1..Len(holdings) :
                                    holdings[j].type = "Mutual Fund Folio"}}
    IN  SelectSeq(holdings, LAMBDA h :
            ~(h.type = "Mutual Fund" /\ BaseIsin(h.isin_no) \in folio_isins))

EquityKey(h) == <<h.isin_no, h.units, Round2(h.valuation)>>

RECURSIVE NsdlCollapseEquity(_, _)
NsdlCollapseEquity(holdings, seen_equity_keys) ==
    IF holdings = <<>> THEN <<>>
    ELSE LET h == Head(holdings)
         IN  IF h.type = "Shares" /\ EquityKey(h) \in seen_equity_keys
             THEN NsdlCollapseEquity(Tail(holdings), seen_equity_keys)
             ELSE <<h>> \o NsdlCollapseEquity(Tail(holdings),
                      IF h.type = "Shares"
                      THEN seen_equity_keys \cup {EquityKey(h)}
                      ELSE seen_equity_keys)

NsdlFinalHoldings(parsed) ==
    NsdlCollapseEquity(NsdlSuppressFolioTwins(parsed), {})

\* ------------------------------------------------------------------------
\* cams_parser.py : position-tagged blocks -> holdings
\* ------------------------------------------------------------------------
\* A block: its y coordinate; whether its text holds a folio-shaped token;
\* the INF isin in its text (NoIsin if none); the numeric-looking lines after
\* its first line (market value candidates); the remaining lines joined
\* (scheme); the decimals in its text (what re.findall returns)
CamsBlock(y, f, i, mv, n, c) ==
    [y |-> y, folio |-> f, isin |-> i, mv |-> mv, scheme |-> n, nums |-> c]

\* vertical tolerance of a left/right pair and the lookahead of the search
YTolerance == 5
Lookahead == 5

\* a search for the right block that also accepts a block already consumed
CamsRightAnyBlock(blocks, i, used) ==
    LET cand == {j \in (i + 1)..Min(i + Lookahead, Len(blocks)) :
                    /\ Abs(blocks[j].y - blocks[i].y) <= YTolerance
                    /\ blocks[j].isin # NoIsin}
    IN  IF cand = {} THEN 0 ELSE CHOOSE j \in cand : \A k \in cand : j <= k

\* the first unused aligned block with an ISIN after i, 0 if none
CamsRight(blocks, i, used) ==
    LET cand == {j \in (i + 1)..Min(i + Lookahead, Len(blocks)) :
                    /\ j \notin used
                    /\ Abs(blocks[j].y - blocks[i].y) <= YTolerance
                    /\ blocks[j].isin # NoIsin}
    IN  IF cand = {} THEN 0 ELSE CHOOSE j \in cand : \A k \in cand : j <= k

\* market_value: the last numeric-looking line, 0 when there is none
CamsMarketValue(left) == IF left.mv = <<>> THEN 0 ELSE left.mv[Len(left.mv)]

CamsHolding(left, right) ==
    LET units == right.nums[1]
        nav == right.nums[2]
        invested == right.nums[Len(right.nums)]
        market_value == CamsMarketValue(left)
        \* "market_value if market_value else round(units * nav, 2)"
        valuation == IF market_value # 0 THEN market_value ELSE RoundMul2(units, nav)
    IN  Holding("Mutual Fund", right.isin, left.scheme, units, nav, invested, valuation)

RECURSIVE CamsScan(_, _, _, _, _, _)
CamsScan(blocks, i, used, pairs, holdings, total_value) ==
    IF i > Len(blocks)
    THEN [holdings |-> holdings, total_value |-> total_value,
          pairs |-> pairs, used |-> used]
    ELSE IF i \in used \/ ~blocks[i].folio
    THEN CamsScan(blocks, i + 1, used, pairs, holdings, total_value)
    ELSE LET j == CamsRight(blocks, i, used)
         IN  IF j = 0
             THEN CamsScan(blocks, i + 1, used, pairs, holdings, total_value)
             ELSE IF Len(blocks[j].nums) < 3
             THEN CamsScan(blocks, i + 1, used \cup {i, j},
                           Append(pairs, <<i, j>>), holdings, total_value)
             ELSE LET h == CamsHolding(blocks[i], blocks[j])
                  IN  CamsScan(blocks, i + 1, used \cup {i, j},
                               Append(pairs, <<i, j>>), Append(holdings, h),
                               total_value + h.valuation)

parse_cams_two_column(blocks) == CamsScan(blocks, 1, {}, <<>>, <<>>, 0)

\* ------------------------------------------------------------------------
\* Statements the model feeds the processors
\* ------------------------------------------------------------------------
Issuers == {"NSDL", "CDSL", "CAMS"}

\* request-handler threads of the server process
Threads == {1, 2}

\* CDSL rows: one equity and one mutual-fund row
CdslEq1 == CdslRow("EQ", Isin("INE", 1), "ACME LTD", 10000, 10000, 0, 100000)
CdslMf1 == CdslRow("MF", Isin("INF", 1), "HDFC Flexi Cap Fund", 10000, 10000, 90000, 100000)

\* NSDL row: the same equity (units, two columns, nav, value)
NsdlEq1 == NsdlRow(Isin("INE", 1), "ACME LTD", 0, <<10000, 1000, 2000, 10000, 100000>>)
\* further lots of that equity: 5 units worth 50.00, 5 units worth 100.50
NsdlEqLot == NsdlRow(Isin("INE", 1), "ACME LTD", 0, <<5000, 1000, 2000, 10000, 50000>>)
NsdlEqNear == NsdlRow(Isin("INE", 1), "ACME LTD", 0, <<5000, 1000, 2000, 20100, 100500>>)
\* a line of the statement's header naming the depository
CdslHeader == CdslRow("JUNK", NoIsin, "Central Depository Services", 0, 0, 0, 0)

\* CAMS blocks: a left block (folio, market value, scheme) and its right block,
\* the same fund as CdslMf1
CamsLeft1 == CamsBlock(100, TRUE, NoIsin, <<100000>>, "HDFC Flexi Cap Fund", <<100000>>)
CamsRight1 == CamsBlock(102, FALSE, Isin("INF", 1), <<>>, "", <<10000, 10000, 90000>>)

\* the marker phrases that corroborate a declared issuer type
MarkerPhrases(issuer) ==
    CASE issuer = "NSDL" -> {"National Securities Depository Limited"}
      [] issuer = "CDSL" -> {"Central Depository Services", "CDSL"}
      [] issuer = "CAMS" -> {"Computer Age Management Services", "CAMS"}

RowText(issuer, r) == IF issuer = "CAMS" THEN r.scheme ELSE r.name

HasMarker(issuer, text) ==
    \E i \in 1..Len(text) : RowText(issuer, text[i]) \in MarkerPhrases(issuer)

\* the statements uploaded: one row, the same row twice, two different rows
FileContents(issuer) ==
    CASE issuer = "CDSL" -> {<<CdslEq1>>, <<CdslEq1, CdslEq1>>, <<CdslMf1, CdslEq1>>,
                             <<CdslHeader, CdslEq1>>}
      [] issuer = "NSDL" -> {<<NsdlEq1>>, <<NsdlEq1, NsdlEqLot>>, <<NsdlEq1, NsdlEqNear>>}
      [] issuer = "CAMS" -> {<<CamsLeft1, CamsRight1>>}

\* ------------------------------------------------------------------------
\* State
\* ------------------------------------------------------------------------
VARIABLES
    seen,                  \* dedupe_context._seen, as a set of (key, source)
    portfolios,            \* committed rows of table portfolios
    portfolio_duplicates,  \* committed rows of table portfolio_duplicates
    th,                    \* per thread: the request and the processor call
    nbatch,                \* upload requests begun so far
    nfile,                 \* processor calls begun so far
    closed,                \* upload requests that have ended
    marks,                 \* history: who put each entry of seen (key, source, batch)
    pin,                   \* parser check: the text handed to a parser
    pout,                  \* parser check: what the parser returned
    ex,                    \* extractor check: the document and the call's position
    cls                    \* classifier check: the name and what was returned

vars == <<seen, portfolios, portfolio_duplicates, th, nbatch, nfile, closed,
          marks, pin, pout, ex, cls>>

NoResult == [holdings |-> <<>>, total_value |-> -1]
NoHolding == Holding("", NoIsin, "", 0, 0, 0, 0)
NoCheck == [made |-> FALSE, h |-> NoHolding, result |-> FALSE,
            at |-> {}, alone |-> {}, against |-> {}]

IdleThread ==
    [pc |-> "idle", batch |-> 0, began |-> {}, files |-> 0, alone |-> {},
     issuer |-> "", path |-> "", fid |-> 0, text |-> <<>>,
     holdings |-> <<>>, k |-> 0, total_value |-> 0,
     txp |-> <<>>, txd |-> <<>>, seen_isins |-> {}, seen_composites |-> {},
     decided |-> <<>>, mark_calls |-> <<>>, last |-> NoCheck, result |-> NoResult]

\* no extractor call and no classifier call under way
NoExtract ==
    [extractor |-> "", needs_pass |-> FALSE, password |-> "", content |-> <<>>,
     pc |-> "idle", handle |-> "none", authenticated |-> FALSE, error |-> "",
     returned |-> FALSE, text |-> <<>>, holdings |-> <<>>]
NoClassify == [name |-> <<>>, done |-> FALSE, category |-> "", sub_category |-> ""]

NoParse == [parser |-> "", rows |-> <<>>, htype |-> ""]
NoOutput ==
    [done |-> FALSE, parsed |-> <<>>, holdings |-> <<>>, total_value |-> 0,
     pairs |-> <<>>, name |-> ""]

Init ==
    /\ seen = {}
    /\ portfolios = <<>>
    /\ portfolio_duplicates = <<>>
    /\ th = [t \in Threads |-> IdleThread]
    /\ nbatch = 0
    /\ nfile = 0
    /\ closed = {}
    /\ marks = {}
    /\ pin = NoParse
    /\ pout = NoOutput
    /\ ex = NoExtract
    /\ cls = NoClassify

\* ------------------------------------------------------------------------
\* The processors: process_nsdl_file, process_cdsl_file, process_cams_file
\* ------------------------------------------------------------------------
\* extract + parse (+ the NSDL clean-ups): the list the loop runs over and the
\* total the call returns
ProcessorParse(issuer, content) ==
    CASE issuer = "CDSL" -> parse_cdsl_ecas_text(content)
      [] issuer = "NSDL" ->
            LET p == parse_nsdl_ecas_text(content)
            IN  [holdings |-> NsdlFinalHoldings(p.holdings),
                 total_value |-> p.total_value]
      [] issuer = "CAMS" ->
            LET p == parse_cams_two_column(content)
            IN  [holdings |-> p.holdings, total_value |-> p.total_value]

\* only process_cdsl_file sets h["source_file"] = os.path.basename(file_path)
StampSource(issuer, path, h) ==
    IF issuer = "CDSL" THEN [h EXCEPT !.source_file = path] ELSE h

TableRow(p, h) ==
    [fid |-> p.fid, pos |-> p.k, path |-> p.path, batch |-> p.batch,
     issuer |-> p.issuer, h |-> h]

\* a duplicate silently dropped: no row is written anywhere
QuarantineRowDropped(txd, p, h) == txd

\* cur.execute("INSERT INTO portfolio_duplicates ...") for a duplicate
QuarantineRow(txd, p, h) == Append(txd, TableRow(p, h))

\* an upload request begins; nothing in the repository resets _seen here
NewBatch(t) ==
    /\ th[t].pc = "idle"
    /\ nbatch < MaxBatches
    /\ nbatch' = nbatch + 1
    /\ th' = [th EXCEPT ![t] = [IdleThread EXCEPT !.pc = "request",
                                                  !.batch = nbatch + 1,
                                                  !.began = closed,
                                                  !.alone = seen]]
    /\ UNCHANGED <<seen, portfolios, portfolio_duplicates, nfile, closed, marks,
                   pin, pout, ex, cls>>

\* reset_dedup_context(): "Call once per upload request"
reset_dedup_context(t) ==
    /\ th[t].pc = "request"
    /\ th[t].files = 0
    /\ seen' = {}
    /\ marks' = {}
    /\ th' = [th EXCEPT ![t].alone = {}]
    /\ UNCHANGED <<portfolios, portfolio_duplicates, nbatch, nfile, closed,
                   pin, pout, ex, cls>>

\* process_<issuer>_file is entered: text extracted and parsed, connection opened
StartFile(t, issuer, path, content) ==
    /\ th[t].pc = "request"
    /\ nfile < MaxFiles
    /\ nfile' = nfile + 1
    /\ LET p == ProcessorParse(issuer, content)
       IN  th' = [th EXCEPT ![t] =
                    [@ EXCEPT !.pc = IF p.holdings = <<>> THEN "commit" ELSE "check",
                              !.issuer = issuer, !.path = path, !.fid = nfile + 1,
                              !.text = content,
                              !.files = @ + 1,
                              !.holdings = p.holdings, !.k = 1,
                              !.total_value = p.total_value,
                              !.txp = <<>>, !.txd = <<>>,
                              !.seen_isins = {}, !.seen_composites = {},
                              !.decided = <<>>, !.mark_calls = <<>>, !.last = NoCheck,
                              !.result = NoResult]]
    /\ UNCHANGED <<seen, portfolios, portfolio_duplicates, nbatch, closed, marks,
                   pin, pout, ex, cls>>

NextPc(p) == IF p.k + 1 > Len(p.holdings) THEN "commit" ELSE "check"

\* head of one loop iteration: "if is_duplicate(h): INSERT INTO
\* portfolio_duplicates ...; continue"
Check(t) ==
    /\ th[t].pc = "check"
    /\ LET p == th[t]
           h == StampSource(p.issuer, p.path, p.holdings[p.k])
           dup == is_duplicate(seen, h)
           chk == [made |-> TRUE, h |-> h, result |-> dup, at |-> seen,
                   alone |-> p.alone,
                   against |-> {m.batch : m \in {x \in marks : x.key = holding_key(h)}}]
       IN  th' = [th EXCEPT ![t] =
                    [@ EXCEPT !.holdings[p.k] = h,
                              !.decided = Append(@, dup),
                              !.last = chk,
                              !.txd = IF dup THEN QuarantineRow(@, p, h) ELSE @,
                              !.k = IF dup THEN @ + 1 ELSE @,
                              !.pc = IF dup THEN NextPc(p) ELSE "insert"]]
    /\ UNCHANGED <<seen, portfolios, portfolio_duplicates, nbatch, nfile, closed,
                   marks, pin, pout, ex, cls>>

\* the filters between the duplicate test and the INSERT of process_nsdl_file
NsdlFirstWithIsin(holdings, isin) ==
    holdings[CHOOSE i \in 1..Len(holdings) :
                /\ holdings[i].isin_no = isin
                /\ \A j \in 1..(i - 1) : holdings[j].isin_no # isin]

CompositeKey(h) ==
    <<h.type, clean_fund_name(h.fund_name, h.type), h.units, h.nav, Round2(h.valuation)>>

\* one rupee, the tolerance of the lot comparison
OneRupee == 1000

NsdlKeeps(p, h) ==
    LET isin == h.isin_no
    IN  IF isin = NoIsin /\ h.type # "NPS" THEN FALSE
        ELSE IF isin # NoIsin /\ (IsinLen(isin) < 10 \/ IsInfrastructure(isin)) THEN FALSE
        ELSE IF isin # NoIsin
        THEN IF isin \in p.seen_isins
             THEN /\ h.type = "Shares"
                  /\ NsdlFirstWithIsin(p.holdings, isin).valuation # 0
                  /\ Abs(NsdlFirstWithIsin(p.holdings, isin).valuation - h.valuation)
                        > OneRupee
             ELSE TRUE
        ELSE CompositeKey(h) \notin p.seen_composites

ProcessorKeeps(p, h) == IF p.issuer = "NSDL" THEN NsdlKeeps(p, h) ELSE TRUE

\* rest of the iteration: "INSERT INTO portfolios ...; mark_seen(h)"
\* a loop that calls mark_seen(h) for every holding that was not a duplicate
MarkSeenAlways(keep) == TRUE

\* mark_seen(h) is the last statement of the loop body: it is reached only
\* when no continue was taken, that is when the INSERT was executed
MarkSeenCalled(keep) == keep

Insert(t) ==
    /\ th[t].pc = "insert"
    /\ LET p == th[t]
           h == p.holdings[p.k]
           keep == ProcessorKeeps(p, h)
           called == MarkSeenCalled(keep)
       IN  /\ seen' = IF called THEN mark_seen(seen, h) ELSE seen
           /\ marks' = IF called /\ holding_key(h) # NoKey /\ h.source_file # NoSource
                       THEN marks \cup {[key |-> holding_key(h),
                                         source |-> h.source_file,
                                         batch |-> p.batch]}
                       ELSE marks
           /\ th' = [th EXCEPT ![t] =
                        [@ EXCEPT !.txp = IF keep THEN Append(@, TableRow(p, h)) ELSE @,
                                  !.alone = IF called THEN mark_seen(@, h) ELSE @,
                                  !.mark_calls = IF called THEN Append(@, p.k) ELSE @,
                                  !.seen_isins =
                                      IF keep /\ p.issuer = "NSDL" /\ h.isin_no # NoIsin
                                      THEN @ \cup {h.isin_no} ELSE @,
                                  !.seen_composites =
                                      IF keep /\ p.issuer = "NSDL" /\ h.isin_no = NoIsin
                                      THEN @ \cup {CompositeKey(h)} ELSE @,
                                  !.k = @ + 1,
                                  !.pc = NextPc(p)]]
    /\ UNCHANGED <<portfolios, portfolio_duplicates, nbatch, nfile, closed,
                   pin, pout, ex, cls>>

\* conn.commit() and the return of {"holdings", "total_value"}
Commit(t) ==
    /\ th[t].pc = "commit"
    /\ portfolios' = portfolios \o th[t].txp
    /\ portfolio_duplicates' = portfolio_duplicates \o th[t].txd
    /\ th' = [th EXCEPT ![t] =
                 [@ EXCEPT !.pc = "request",
                           !.txp = <<>>, !.txd = <<>>,
                           !.result = [holdings |-> th[t].holdings,
                                       total_value |-> th[t].total_value]]]
    /\ UNCHANGED <<seen, nbatch, nfile, closed, marks, pin, pout, ex, cls>>

\* a database error inside the try block: conn.rollback(), the exception is
\* raised to the caller; _seen keeps what mark_seen put
DbError(t) ==
    /\ th[t].pc \in {"check", "insert", "commit"}
    /\ th' = [th EXCEPT ![t] =
                 [@ EXCEPT !.pc = "request", !.txp = <<>>, !.txd = <<>>,
                           !.holdings = <<>>, !.k = 0, !.decided = <<>>,
                           !.result = NoResult]]
    /\ UNCHANGED <<seen, portfolios, portfolio_duplicates, nbatch, nfile, closed,
                   marks, pin, pout, ex, cls>>

\* the upload request ends
EndBatch(t) ==
    /\ th[t].pc = "request"
    /\ closed' = closed \cup {th[t].batch}
    /\ th' = [th EXCEPT ![t] = IdleThread]
    /\ UNCHANGED <<seen, portfolios, portfolio_duplicates, nbatch, nfile, marks,
                   pin, pout, ex, cls>>

\* what one request-handler thread can do
ThreadNext(t) ==
    \/ NewBatch(t)
    \/ reset_dedup_context(t)
    \/ \E issuer \in Issuers, path \in Sources :
          \E content \in FileContents(issuer) : StartFile(t, issuer, path, content)
    \/ Check(t)
    \/ Insert(t)
    \/ Commit(t)
    \/ DbError(t)
    \/ EndBatch(t)

\* one request at a time
Next == ThreadNext(CHOOSE t \in Threads : \A u \in Threads : t <= u)

Spec == Init /\ [][Next]_vars

\* the threaded server: requests of several threads interleave
NextConcurrent == \E t \in Threads : ThreadNext(t)

SpecConcurrent == Init /\ [][NextConcurrent]_vars

\* ------------------------------------------------------------------------
\* The parsers on their own: a statement text is drawn, one parser runs on it
\* ------------------------------------------------------------------------
CdslEqZero == CdslRow("EQ", Isin("INE", 2), "ZED LTD", 100000, 10500, 0, 0)
CdslEqSwapped == CdslRow("EQ", Isin("INE", 3), "SWAP LTD", 2000, 50000, 0, 25000)
CdslEqFooter == CdslRow("EQ", Isin("INE", 4), "Portfolio Value", 1000, 1000, 0, 1000)
CdslFooter == CdslRow("FOOTER", NoIsin, "Total Portfolio Value", 0, 0, 0, 999000)
CdslJunk == CdslRow("JUNK", NoIsin, "Statement of Account", 0, 0, 0, 0)

CdslTextRows ==
    {CdslEq1, CdslMf1, CdslEqZero, CdslEqSwapped, CdslEqFooter, CdslFooter, CdslJunk}

NsdlEqZero == NsdlRow(Isin("INE", 2), "ZED LTD", 0, <<100000, 1000, 2000, 10500, 0>>)
NsdlEqWide == NsdlRow(Isin("INE", 3), "WIDE LTD", 0,
                      <<10000, 1000, 2000, 3000, 4000, 5000, 6000, 7000, 8000, 9000,
                        10000, 100000>>)
NsdlFolio1 == NsdlRow(Isin("INF", 1), "HDFC Flexi Cap Fund", 12345000,
                      <<10000, 9000, 90000, 10000, 100000, 1000, 2000>>)
NsdlFolio2 == NsdlRow(Isin("INF", 3), "HDFC Flexi Cap Fund", 67890000,
                      <<20000, 9000, 180000, 10000, 200000, 1000, 2000>>)
NsdlMf1 == NsdlRow(Isin("INF", 1), "HDFC Flexi Cap Fund", 0,
                   <<10000, 1000, 2000, 10000, 100000>>)
NsdlMfInfra == NsdlRow(InfraIsin, "BOND", 0, <<10000, 1000, 2000, 10000, 100000>>)
NsdlGov1 == NsdlRow(Isin("IN0", 1), "GOI 7.26% BOND", 0,
                    <<10000, 1000, 2000, 3000, 4000, 5000, 10000, 100000>>)
NsdlNps1 == NsdlRow(NoIsin, "Pension Fund TIER I", 0, <<10000, 10000, 100000>>)
NsdlTier1 == NsdlRow(NoIsin, "Bonus TIER I", 0, <<10000, 10000, 100000>>)

NsdlMfTiny == NsdlRow(Isin("INF", 2), "HDFC Flexi Cap Fund", 0,
                      <<1, 1000, 2000, 1000, 0>>)

NsdlTextRows ==
    {NsdlEq1, NsdlEqZero, NsdlEqLot, NsdlEqWide, NsdlFolio1, NsdlMf1, NsdlMfInfra,
     NsdlGov1, NsdlNps1, NsdlTier1, NsdlMfTiny, NsdlFolio2}

\* block lists of a CAMS page, in the order extract_cams_blocks leaves them
\* (sorted by y): a left block with a market value, with none and with a
\* printed 0.00; two left blocks on the row of one right block; a right block
\* five and six positions after its left block; a right block 6 points lower;
\* a right block with two decimals only
CamsTexts ==
    LET LeftNoMv == CamsBlock(100, TRUE, NoIsin, <<>>, "Axis Bluechip Fund", <<>>)
        LeftZeroMv == CamsBlock(100, TRUE, NoIsin, <<0>>, "HDFC Flexi Cap Fund", <<0>>)
        Left2 == CamsBlock(101, TRUE, NoIsin, <<50000>>, "Axis Bluechip Fund", <<50000>>)
        Other == CamsBlock(101, FALSE, NoIsin, <<>>, "Page 1 of 2", <<>>)
        Right2 == CamsBlock(102, FALSE, Isin("INF", 2), <<>>, "", <<2500, 20000, 40000>>)
        RightLow == CamsBlock(106, FALSE, Isin("INF", 1), <<>>, "", <<10000, 10000, 90000>>)
        RightShort == CamsBlock(101, FALSE, Isin("INF", 1), <<>>, "", <<10000, 10000>>)
        Left3 == CamsBlock(102, TRUE, NoIsin, <<50000>>, "Axis Bluechip Fund", <<50000>>)
    IN  {<<CamsLeft1, CamsRight1>>,
         <<LeftNoMv, Right2>>,
         <<LeftZeroMv, CamsRight1>>,
         <<CamsLeft1, Left2, CamsRight1>>,
         <<CamsLeft1, Left2, CamsRight1, Right2>>,
         <<CamsLeft1, CamsRight1, Right2>>,
         <<CamsLeft1, Other, Other, Other, Other, CamsRight1>>,
         <<CamsLeft1, Other, Other, Other, Other, Other, CamsRight1>>,
         <<CamsLeft1, RightLow>>,
         <<CamsLeft1, RightShort>>,
         <<CamsLeft1, RightShort, Left3, Right2>>}

\* the types process_nsdl_file and the parser pass to clean_fund_name
HoldingTypes ==
    {"Equity", "Shares", "Mutual Fund", "Mutual Fund Folio", "Govt Security",
     "Corporate Bond", "NPS"}

ParseInputs ==
    [parser : {"cdsl_parser", "ecasparser"}, rows : SeqsUpTo(CdslTextRows, MaxRows),
     htype : {""}]
    \cup [parser : {"nsdl_parser"}, rows : SeqsUpTo(NsdlTextRows, MaxRows), htype : {""}]
    \cup [parser : {"cams_parser"}, rows : CamsTexts, htype : {""}]
    \cup [parser : {"clean_fund_name"}, rows : {<<n>> : n \in DOMAIN Words},
          htype : HoldingTypes]

InitParse ==
    /\ seen = {}
    /\ portfolios = <<>>
    /\ portfolio_duplicates = <<>>
    /\ th = [t \in Threads |-> IdleThread]
    /\ nbatch = 0
    /\ nfile = 0
    /\ closed = {}
    /\ marks = {}
    /\ pin \in ParseInputs
    /\ pout = NoOutput
    /\ ex = NoExtract
    /\ cls = NoClassify

Output(parsed, holdings, total_value) ==
    [done |-> TRUE, parsed |-> parsed, holdings |-> holdings,
     total_value |-> total_value, pairs |-> <<>>, name |-> ""]

\* cdsl_parser.parse_cdsl_ecas_text(text)
ParseCdsl ==
    /\ pin.parser = "cdsl_parser"
    /\ ~pout.done
    /\ LET r == parse_cdsl_ecas_text(pin.rows)
       IN  pout' = Output(r.holdings, r.holdings, r.total_value)
    /\ UNCHANGED <<seen, portfolios, portfolio_duplicates, th, nbatch, nfile,
                   closed, marks, pin, ex, cls>>

\* ecasparser.parse_ecas_text(text), the parser of /upload and /upload-member
ParseEcas ==
    /\ pin.parser = "ecasparser"
    /\ ~pout.done
    /\ LET r == parse_ecas_text(pin.rows)
       IN  pout' = Output(r.holdings, r.holdings, r.total_value)
    /\ UNCHANGED <<seen, portfolios, portfolio_duplicates, th, nbatch, nfile,
                   closed, marks, pin, ex, cls>>

\* nsdl_parser: parse_nsdl_ecas_text(text), then the two clean-ups of
\* process_nsdl_file; holdings and total_value are what the call returns
ParseNsdl ==
    /\ pin.parser = "nsdl_parser"
    /\ ~pout.done
    /\ LET r == parse_nsdl_ecas_text(pin.rows)
           f == ProcessorParse("NSDL", pin.rows)
       IN  pout' = Output(r.holdings, f.holdings, f.total_value)
    /\ UNCHANGED <<seen, portfolios, portfolio_duplicates, th, nbatch, nfile,
                   closed, marks, pin, ex, cls>>

\* cams_parser.parse_cams_two_column(blocks); pairs lists the (left, right)
\* positions the loop matched
ParseCams ==
    /\ pin.parser = "cams_parser"
    /\ ~pout.done
    /\ LET r == parse_cams_two_column(pin.rows)
       IN  pout' = [Output(r.holdings, r.holdings, r.total_value)
                       EXCEPT !.pairs = r.pairs]
    /\ UNCHANGED <<seen, portfolios, portfolio_duplicates, th, nbatch, nfile,
                   closed, marks, pin, ex, cls>>

\* nsdl_parser.clean_fund_name(name, htype)
CleanName ==
    /\ pin.parser = "clean_fund_name"
    /\ ~pout.done
    /\ pout' = [Output(<<>>, <<>>, 0)
                   EXCEPT !.name = clean_fund_name(pin.rows[1], pin.htype)]
    /\ UNCHANGED <<seen, portfolios, portfolio_duplicates, th, nbatch, nfile,
                   closed, marks, pin, ex, cls>>

NextParse == ParseCdsl \/ ParseEcas \/ ParseNsdl \/ ParseCams \/ CleanName

SpecParse == InitParse /\ [][NextParse]_vars

\* ------------------------------------------------------------------------
\* The block extractors: nsdl_parser.extract_blocks_text,
\* cdsl_parser.extract_blocks_text, cams_parser.extract_cams_blocks
\* ------------------------------------------------------------------------
\* the password argument: None, a wrong one, the right one
Passwords == {"none", "wrong", "right"}

ExtractInputs ==
    UNION {[extractor : {i}, needs_pass : BOOLEAN, password : Passwords,
            content : FileContents(i)] : i \in Issuers}

InitExtract ==
    /\ seen = {}
    /\ portfolios = <<>>
    /\ portfolio_duplicates = <<>>
    /\ th = [t \in Threads |-> IdleThread]
    /\ nbatch = 0
    /\ nfile = 0
    /\ closed = {}
    /\ marks = {}
    /\ pin = NoParse
    /\ pout = NoOutput
    /\ \E d \in ExtractInputs :
          ex = [NoExtract EXCEPT !.extractor = d.extractor,
                                 !.needs_pass = d.needs_pass,
                                 !.password = d.password,
                                 !.content = d.content,
                                 !.pc = "call"]
    /\ cls = NoClassify

ExtractUnchanged ==
    UNCHANGED <<seen, portfolios, portfolio_duplicates, th, nbatch, nfile, closed,
                marks, pin, pout, cls>>

\* doc = fitz.open(file_path)
ExtractOpen ==
    /\ ex.pc = "call"
    /\ ex' = [ex EXCEPT !.pc = "auth", !.handle = "open"]
    /\ ExtractUnchanged

\* the extractor raises: the exception leaves the function, no doc.close()
ExtractRaise(e, error) == [e EXCEPT !.pc = "done", !.error = error]

\* "if doc.needs_pass:": cdsl and cams raise ValueError for a missing or a
\* wrong password; nsdl calls doc.authenticate(password) and drops the result
ExtractAuthenticate ==
    /\ ex.pc = "auth"
    /\ ex' = IF ~ex.needs_pass
             THEN [ex EXCEPT !.pc = "read", !.authenticated = TRUE]
             ELSE IF ex.extractor = "NSDL"
             THEN [ex EXCEPT !.pc = "read",
                             !.authenticated = (ex.password = "right")]
             ELSE IF ex.password = "right"
             THEN [ex EXCEPT !.pc = "read", !.authenticated = TRUE]
             ELSE ExtractRaise(ex, "InvalidPassword")
    /\ ExtractUnchanged

\* "for page in doc": the text of the pages.  Over a document that is still
\* locked the outcome is the library's: it raises, or it yields pages with
\* nothing readable in them
ExtractRead ==
    /\ ex.pc = "read"
    /\ \/ /\ ex.authenticated
          /\ ex' = [ex EXCEPT !.pc = "close", !.text = ex.content]
       \/ /\ ~ex.authenticated
          /\ ex' = ExtractRaise(ex, "LibraryError")
       \/ /\ ~ex.authenticated
          /\ ex' = [ex EXCEPT !.pc = "close", !.text = <<>>]
    /\ ExtractUnchanged

\* the end of the extractor: nsdl and cams call doc.close(), cdsl returns
\* without; the processor parses what was returned
ExtractReturn ==
    /\ ex.pc = "close"
    /\ ex' = [ex EXCEPT !.pc = "done",
                        !.returned = TRUE,
                        !.handle = IF ex.extractor = "CDSL" THEN @ ELSE "closed",
                        !.holdings = ProcessorParse(ex.extractor, ex.text).holdings]
    /\ ExtractUnchanged

NextExtract == ExtractOpen \/ ExtractAuthenticate \/ ExtractRead \/ ExtractReturn

SpecExtract == InitExtract /\ [][NextExtract]_vars

\* ------------------------------------------------------------------------
\* cdsl_parser.classify_instrument : fund name -> (category, sub_category)
\* ------------------------------------------------------------------------
\* A name is a sequence of words, joined by single spaces; the empty sequence
\* is the empty name.
Vocabulary ==
    {"HDFC", "Mid", "Cap", "Fund", "Gold", "Liquid", "Limited", "Growth", "Infra",
     "Pension", "Hybrid", "FoF", "Global", "Share", "ACME", "Corporate", "Large", "&"}

\* fund_name.lower()
lower(w) ==
    CASE w = "HDFC" -> "hdfc"
      [] w = "Mid" -> "mid"
      [] w = "Cap" -> "cap"
      [] w = "Fund" -> "fund"
      [] w = "Gold" -> "gold"
      [] w = "Liquid" -> "liquid"
      [] w = "Limited" -> "limited"
      [] w = "Growth" -> "growth"
      [] w = "Infra" -> "infra"
      [] w = "Pension" -> "pension"
      [] w = "Hybrid" -> "hybrid"
      [] w = "FoF" -> "fof"
      [] w = "Global" -> "global"
      [] w = "Share" -> "share"
      [] w = "ACME" -> "acme"
      [] w = "Corporate" -> "corporate"
      [] w = "Large" -> "large"
      [] w = "&" -> "&"

\* the words of a keyword; a keyword without a space is one word
KeywordWords(k) ==
    CASE k = "aggressive hybrid" -> <<"aggressive", "hybrid">>
      [] k = "balanced advantage" -> <<"balanced", "advantage">>
      [] k = "banking & psu" -> <<"banking", "&", "psu">>
      [] k = "capital goods" -> <<"capital", "goods">>
      [] k = "child plan" -> <<"child", "plan">>
      [] k = "conservative hybrid" -> <<"conservative", "hybrid">>
      [] k = "corporate bond" -> <<"corporate", "bond">>
      [] k = "credit opportunities" -> <<"credit", "opportunities">>
      [] k = "credit risk" -> <<"credit", "risk">>
      [] k = "dividend yield" -> <<"dividend", "yield">>
      [] k = "dynamic asset" -> <<"dynamic", "asset">>
      [] k = "dynamic bond" -> <<"dynamic", "bond">>
      [] k = "equity savings" -> <<"equity", "savings">>
      [] k = "equity shares" -> <<"equity", "shares">>
      [] k = "flexi cap" -> <<"flexi", "cap">>
      [] k = "floating rate" -> <<"floating", "rate">>
      [] k = "fund of funds" -> <<"fund", "of", "funds">>
      [] k = "government security" -> <<"government", "security">>
      [] k = "large & mid cap" -> <<"large", "&", "mid", "cap">>
      [] k = "large and mid" -> <<"large", "and", "mid">>
      [] k = "large cap" -> <<"large", "cap">>
      [] k = "long duration" -> <<"long", "duration">>
      [] k = "long term" -> <<"long", "term">>
      [] k = "low duration" -> <<"low", "duration">>
      [] k = "medium duration" -> <<"medium", "duration">>
      [] k = "medium term" -> <<"medium", "term">>
      [] k = "medium to long" -> <<"medium", "to", "long">>
      [] k = "mid cap" -> <<"mid", "cap">>
      [] k = "money market" -> <<"money", "market">>
      [] k = "multi asset" -> <<"multi", "asset">>
      [] k = "multi cap" -> <<"multi", "cap">>
      [] k = "oil & gas" -> <<"oil", "&", "gas">>
      [] k = "psu bank" -> <<"psu", "bank">>
      [] k = "psu bond" -> <<"psu", "bond">>
      [] k = "real estate" -> <<"real", "estate">>
      [] k = "short duration" -> <<"short", "duration">>
      [] k = "short term" -> <<"short", "term">>
      [] k = "small cap" -> <<"small", "cap">>
      [] k = "specialty chemical" -> <<"specialty", "chemical">>
      [] k = "tax saver" -> <<"tax", "saver">>
      [] k = "tax savings" -> <<"tax", "savings">>
      [] k = "ultra short" -> <<"ultra", "short">>
      [] OTHER -> <<k>>

\* the keyword words that occur inside the lowered word (Python's `in`)
Inside(w) ==
    CASE w = "HDFC" -> {}
      [] w = "Mid" -> {"mid"}
      [] w = "Cap" -> {"cap"}
      [] w = "Fund" -> {"fund"}
      [] w = "Gold" -> {"gold"}
      [] w = "Liquid" -> {"liquid"}
      [] w = "Limited" -> {"it"}
      [] w = "Growth" -> {}
      [] w = "Infra" -> {"infra"}
      [] w = "Pension" -> {"pension"}
      [] w = "Hybrid" -> {"hybrid"}
      [] w = "FoF" -> {"fof", "of"}
      [] w = "Global" -> {"global"}
      [] w = "Share" -> {"share"}
      [] w = "ACME" -> {}
      [] w = "Corporate" -> {"corporate", "rate"}
      [] w = "Large" -> {"large"}
      [] w = "&" -> {"&"}

\* the keyword words the lowered word ends with
Suffixes(w) ==
    CASE w = "HDFC" -> {}
      [] w = "Mid" -> {"mid"}
      [] w = "Cap" -> {"cap"}
      [] w = "Fund" -> {"fund"}
      [] w = "Gold" -> {"gold"}
      [] w = "Liquid" -> {"liquid"}
      [] w = "Limited" -> {}
      [] w = "Growth" -> {}
      [] w = "Infra" -> {"infra"}
      [] w = "Pension" -> {"pension"}
      [] w = "Hybrid" -> {"hybrid"}
      [] w = "FoF" -> {"fof", "of"}
      [] w = "Global" -> {"global"}
      [] w = "Share" -> {"share"}
      [] w = "ACME" -> {}
      [] w = "Corporate" -> {"corporate", "rate"}
      [] w = "Large" -> {"large"}
      [] w = "&" -> {"&"}

\* the keyword words the lowered word starts with
Prefixes(w) ==
    CASE w = "HDFC" -> {}
      [] w = "Mid" -> {"mid"}
      [] w = "Cap" -> {"cap"}
      [] w = "Fund" -> {"fund"}
      [] w = "Gold" -> {"gold"}
      [] w = "Liquid" -> {"liquid"}
      [] w = "Limited" -> {}
      [] w = "Growth" -> {}
      [] w = "Infra" -> {"infra"}
      [] w = "Pension" -> {"pension"}
      [] w = "Hybrid" -> {"hybrid"}
      [] w = "FoF" -> {"fof"}
      [] w = "Global" -> {"global"}
      [] w = "Share" -> {"share"}
      [] w = "ACME" -> {}
      [] w = "Corporate" -> {"corporate"}
      [] w = "Large" -> {"large"}
      [] w = "&" -> {"&"}

\* keyword in name, name being the lowered words joined by spaces
Contains(name, k) ==
    LET kw == KeywordWords(k)
        m == Len(kw)
    IN  IF m = 1
        THEN \E i \in 1..Len(name) : kw[1] \in Inside(name[i])
        ELSE \E i \in 1..(Len(name) - m + 1) :
                /\ kw[1] \in Suffixes(name[i])
                /\ \A j \in 2..(m - 1) : lower(name[i + j - 1]) = kw[j]
                /\ kw[m] \in Prefixes(name[i + m - 1])

\* one rule of the chain: any(k in name for k in keys), for the fund-of-funds
\* rule together with a second any(...), for the inference rules a test on
\* the set of words of the name
Rule(keys, category, sub_category) ==
    [keys |-> keys, also |-> {}, words |-> FALSE,
     category |-> category, sub_category |-> sub_category]

\* solution oriented, commodity and alternatives
HeadRules ==
    << Rule({"retirement", "pension"}, "Solution Oriented", "Retirement"),
       Rule({"children", "child plan", "education"}, "Solution Oriented", "Children's"),
       Rule({"gold"}, "Commodity", "Gold"),
       Rule({"silver"}, "Commodity", "Silver"),
       Rule({"reit", "invit", "real estate", "realty"}, "Alternative", "REIT / InvIT"),
       Rule({"commodity"}, "Commodity", "Other Commodity") >>

\* hybrid_patterns
hybrid_patterns ==
    << Rule({"arbitrage"}, "Hybrid", "Arbitrage"),
       Rule({"equity savings"}, "Hybrid", "Equity Savings"),
       Rule({"conservative hybrid"}, "Hybrid", "Conservative Hybrid"),
       Rule({"aggressive hybrid"}, "Hybrid", "Aggressive Hybrid"),
       Rule({"balanced advantage", "dynamic asset"}, "Hybrid", "Balanced Advantage"),
       Rule({"multi asset"}, "Hybrid", "Multi Asset Allocation"),
       Rule({"hybrid"}, "Hybrid", "Aggressive Hybrid") >>

\* ELSS, market cap, flexi/multi cap, focused, value/contra, dividend yield
EquityRules ==
    << Rule({"elss", "tax saver", "tax savings", "80c"}, "Equity", "ELSS"),
       Rule({"small cap"}, "Equity", "Small Cap"),
       Rule({"mid cap"}, "Equity", "Mid Cap"),
       Rule({"large cap", "bluechip"}, "Equity", "Large Cap"),
       Rule({"large & mid cap", "large and mid"}, "Equity", "Large & Mid Cap"),
       Rule({"flexi cap", "flexicap"}, "Equity", "Flexi Cap"),
       Rule({"multi cap", "multicap"}, "Equity", "Multi Cap"),
       Rule({"focused"}, "Equity", "Focused"),
       Rule({"contra"}, "Equity", "Contra"),
       Rule({"value"}, "Equity", "Value"),
       Rule({"dividend yield"}, "Equity", "Dividend Yield") >>

\* sectoral_keywords, in the order of the dict
sectoral_keywords ==
    << Rule({"bank", "financial", "bfsi", "psu bank"}, "Equity", "Sectoral - Banking & Financial Services"),
       Rule({"infra", "infrastructure"}, "Equity", "Sectoral - Infrastructure"),
       Rule({"technology", "tech", "it", "software"}, "Equity", "Sectoral - Technology"),
       Rule({"pharma", "pharmaceutical", "healthcare", "health"}, "Equity", "Sectoral - Pharma & Healthcare"),
       Rule({"consumption", "consumer", "fmcg"}, "Equity", "Sectoral - Consumption"),
       Rule({"auto", "automobile"}, "Equity", "Sectoral - Auto & Auto Ancillaries"),
       Rule({"energy", "power", "oil & gas"}, "Equity", "Sectoral - Energy"),
       Rule({"manufacturing", "capital goods"}, "Equity", "Sectoral - Manufacturing"),
       Rule({"metal", "mining"}, "Equity", "Sectoral - Metals & Mining"),
       Rule({"media", "entertainment"}, "Equity", "Sectoral - Media & Entertainment"),
       Rule({"chemical", "specialty chemical"}, "Equity", "Sectoral - Chemicals"),
       Rule({"realty", "real estate"}, "Equity", "Sectoral - Real Estate"),
       Rule({"transport", "logistics"}, "Equity", "Sectoral - Transportation & Logistics"),
       Rule({"defence", "defense"}, "Equity", "Sectoral - Defence"),
       Rule({"esg", "responsible", "sustainable", "sustainability"}, "Equity", "Sectoral - ESG") >>

\* index funds and the default equity rule
IndexRules ==
    << Rule({"index", "nifty", "sensex", "bse"}, "Equity", "Index"),
       Rule({"equity"}, "Equity", "Diversified") >>

\* debt_patterns
debt_patterns ==
    << Rule({"overnight"}, "Debt", "Overnight"),
       Rule({"liquid"}, "Debt", "Liquid"),
       Rule({"money market"}, "Debt", "Money Market"),
       Rule({"ultra short", "ultrashort"}, "Debt", "Ultra Short Duration"),
       Rule({"low duration"}, "Debt", "Low Duration"),
       Rule({"short term", "short duration"}, "Debt", "Short Duration"),
       Rule({"medium duration", "medium term"}, "Debt", "Medium Duration"),
       Rule({"medium to long", "long term", "long duration"}, "Debt", "Medium to Long Duration"),
       Rule({"gilt", "government security"}, "Debt", "Gilt"),
       Rule({"dynamic bond"}, "Debt", "Dynamic Bond"),
       Rule({"corporate bond"}, "Debt", "Corporate Bond"),
       Rule({"credit risk", "credit opportunities"}, "Debt", "Credit Risk"),
       Rule({"banking & psu", "psu bond"}, "Debt", "Banking & PSU"),
       Rule({"floater", "floating rate"}, "Debt", "Floating Rate"),
       Rule({"debt", "income", "bond"}, "Debt", "Medium Duration") >>

\* fund of funds: international when a second keyword is there too
FundOfFundsRules ==
    << [Rule({"fund of funds", "fof"}, "Fund of Funds", "International FoF")
          EXCEPT !.also = {"international", "global", "overseas"}],
       Rule({"fund of funds", "fof"}, "Fund of Funds", "Domestic FoF") >>

\* international_patterns
international_patterns ==
    << Rule({"us", "usa", "america", "s&p", "nasdaq"}, "International", "US Focused"),
       Rule({"global", "world", "international"}, "International", "Global"),
       Rule({"asia", "china", "japan", "emerging"}, "International", "Asia/EM"),
       Rule({"europe", "euro", "germany", "uk"}, "International", "Europe") >>

\* inference from common words: words.intersection(...)
InferenceRules ==
    << [Rule({"growth", "cap", "equity", "mid", "small", "large", "sector"}, "Equity", "Diversified") EXCEPT !.words = TRUE],
       [Rule({"income", "bond", "gilt", "duration", "credit", "corporate"}, "Debt", "Medium Duration") EXCEPT !.words = TRUE] >>

\* individual stocks / ETFs
StockRules ==
    << Rule({"equity shares", "share", "stock", "etf"}, "Equity", "Individual Stock") >>

\* the chain, in the order of the source
ClassifyRules ==
    HeadRules
    \o hybrid_patterns
    \o EquityRules
    \o sectoral_keywords
    \o IndexRules
    \o debt_patterns
    \o FundOfFundsRules
    \o international_patterns
    \o InferenceRules
    \o StockRules

RuleMatches(r, name) ==
    IF r.words
    THEN \E i \in 1..Len(name) : lower(name[i]) \in r.keys
    ELSE /\ \E k \in r.keys : Contains(name, k)
         /\ (r.also # {} => \E k \in r.also : Contains(name, k))

Unclassified == [category |-> "Unclassified", sub_category |-> "Unknown"]

\* a classifier that stops after the fund rules: no inference from common
\* words, no stock rule
RECURSIVE ClassifyWithoutInference(_, _)
ClassifyWithoutInference(name, i) ==
    IF i > Len(ClassifyRules) - Len(InferenceRules) - Len(StockRules)
    THEN Unclassified
    ELSE IF RuleMatches(ClassifyRules[i], name)
    THEN [category |-> ClassifyRules[i].category,
          sub_category |-> ClassifyRules[i].sub_category]
    ELSE ClassifyWithoutInference(name, i + 1)

\* an if-chain whose branches assign instead of returning: the last rule that
\* matches decides
ClassifyLastMatch(name, i) ==
    LET matching == {j \in i..Len(ClassifyRules) : RuleMatches(ClassifyRules[j], name)}
        last == CHOOSE j \in matching : \A k \in matching : k <= j
    IN  IF matching = {} THEN Unclassified
        ELSE [category |-> ClassifyRules[last].category,
              sub_category |-> ClassifyRules[last].sub_category]

\* the if-chain from rule i on: the first rule that matches returns
RECURSIVE ClassifyFrom(_, _)
ClassifyFrom(name, i) ==
    IF i > Len(ClassifyRules) THEN Unclassified
    ELSE IF RuleMatches(ClassifyRules[i], name)
    THEN [category |-> ClassifyRules[i].category,
          sub_category |-> ClassifyRules[i].sub_category]
    ELSE ClassifyFrom(name, i + 1)

classify_instrument(fund_name) ==
    IF fund_name = <<>> THEN Unclassified ELSE ClassifyFrom(fund_name, 1)

\* scheme names of the "large & mid cap" tier, longer than MaxWords
MarketCapNames ==
    {<<"Large", "&", "Mid", "Cap">>, <<"HDFC", "Large", "&", "Mid", "Cap", "Fund">>}

ClassifyNames == {<<>>} \cup SeqsUpTo(Vocabulary, MaxWords) \cup MarketCapNames

InitClassify ==
    /\ seen = {}
    /\ portfolios = <<>>
    /\ portfolio_duplicates = <<>>
    /\ th = [t \in Threads |-> IdleThread]
    /\ nbatch = 0
    /\ nfile = 0
    /\ closed = {}
    /\ marks = {}
    /\ pin = NoParse
    /\ pout = NoOutput
    /\ ex = NoExtract
    /\ \E n \in ClassifyNames : cls = [NoClassify EXCEPT !.name = n]

\* category, sub_category = classify_instrument(fund_name)
Classify ==
    /\ ~cls.done
    /\ cls' = [cls EXCEPT !.done = TRUE,
                          !.category = classify_instrument(cls.name).category,
                          !.sub_category = classify_instrument(cls.name).sub_category]
    /\ UNCHANGED <<seen, portfolios, portfolio_duplicates, th, nbatch, nfile, closed,
                   marks, pin, pout, ex>>

NextClassify == Classify

SpecClassify == InitClassify /\ [][NextClassify]_vars

----------------------------------------------------------------------------
\* Properties of the deduplication engine and of the processors

SameKey(seen_, h) == SeenSources(seen_, holding_key(h))

InTable(tbl, fid, pos) ==
    \E i \in 1..Len(tbl) : tbl[i].fid = fid /\ tbl[i].pos = pos

SameTriple(a, b) ==
    /\ a.isin_no = b.isin_no
    /\ a.units = b.units
    /\ a.valuation = b.valuation

RECURSIVE ValuationUpTo(_, _)
ValuationUpTo(hs, n) ==
    IF n = 0 THEN 0 ELSE ValuationUpTo(hs, n - 1) + hs[n].valuation

\* the file a thread has just finished: committed and returned
Returned(t) == th[t].pc = "request" /\ th[t].result # NoResult

\* C1: is_duplicate(h) is true exactly when the signature of h has a non-empty
\* recorded source set and that set does not contain h's source_file, for every
\* holding the processors hand to it and every earlier sequence of mark_seen
\* and reset_dedup_context calls.
C1_IsDuplicateIff ==
    \A t \in Threads :
        th[t].last.made =>
            (th[t].last.result <=>
                /\ SameKey(th[t].last.at, th[t].last.h) # {}
                /\ th[t].last.h.source_file \notin SameKey(th[t].last.at, th[t].last.h))

\* C2: with files A then B of one batch handled by the same processor, a
\* holding of B whose (isin, units, valuation) equals that of a holding A put
\* into portfolios is written to portfolio_duplicates and not to portfolios.
C2_CrossFileDiverted ==
    \A t \in Threads :
        Returned(t) =>
            \A pos \in 1..Len(th[t].holdings) :
                (\E i \in 1..Len(portfolios) :
                    /\ portfolios[i].batch = th[t].batch
                    /\ portfolios[i].issuer = th[t].issuer
                    /\ portfolios[i].fid < th[t].fid
                    /\ portfolios[i].path # th[t].path
                    /\ SameTriple(portfolios[i].h, th[t].holdings[pos]))
                =>  /\ InTable(portfolio_duplicates, th[t].fid, pos)
                    /\ ~InTable(portfolios, th[t].fid, pos)

\* C3: when the signature of a holding has only been marked from file F,
\* is_duplicate is false for a holding with that signature whose source is F.
C3_SameFileExemption ==
    \A t \in Threads :
        (/\ th[t].last.made
         /\ SameKey(th[t].last.at, th[t].last.h) = {th[t].last.h.source_file})
        => ~th[t].last.result

\* a second occurrence of a holding inside one file is tested and passes
C3_Witness ==
    \E t \in Threads :
        /\ th[t].last.made
        /\ th[t].last.h.source_file \in Sources
        /\ SameKey(th[t].last.at, th[t].last.h) = {th[t].last.h.source_file}
        /\ ~th[t].last.result

\* C4: deduplication state is fresh for every batch: a holding is never
\* flagged as a duplicate when every recorded mark of its signature was put
\* by a batch that had already ended when the flagging batch began.
C4_FreshPerBatch ==
    \A t \in Threads :
        (th[t].last.made /\ th[t].last.result)
        => ~(th[t].last.against \subseteq th[t].began)

\* C5: with two batches running at the same time, every duplicate decision of
\* a batch is the decision it would get had the other batch not run.
C5_NoInterference ==
    \A t \in Threads :
        th[t].last.made =>
            th[t].last.result = is_duplicate(th[t].last.alone, th[t].last.h)

\* C6: a holding judged a duplicate is written to portfolio_duplicates and
\* only there; a holding judged not a duplicate is never written to
\* portfolio_duplicates and goes on to the insertion step.
C6_DuplicatesQuarantined ==
    \A t \in Threads :
        \A pos \in 1..Len(th[t].decided) :
            LET inDup == InTable(th[t].txd \o portfolio_duplicates, th[t].fid, pos)
                inPf  == InTable(th[t].txp \o portfolios, th[t].fid, pos)
            IN  IF th[t].decided[pos]
                THEN inDup /\ ~inPf
                ELSE /\ ~inDup
                     /\ (pos = th[t].k => th[t].pc = "insert")
                     /\ (pos < th[t].k /\ th[t].issuer # "NSDL" => inPf)

\* one file with both outcomes: a holding inserted and a holding quarantined
C6_Witness ==
    \E t \in Threads :
        /\ Returned(t)
        /\ \E i, j \in 1..Len(th[t].decided) :
            /\ th[t].decided[i]
            /\ InTable(portfolio_duplicates, th[t].fid, i)
            /\ ~th[t].decided[j]
            /\ InTable(portfolios, th[t].fid, j)

\* C7: what process_cdsl_file and process_cams_file return holds only the
\* holdings that were not diverted as duplicates, and total_value is the sum
\* of their valuations.
C7_ResultExcludesDuplicates ==
    \A t \in Threads :
        (Returned(t) /\ th[t].issuer \in {"CDSL", "CAMS"}) =>
            LET hs == th[t].holdings
                accepted == SelectSeq([i \in 1..Len(hs) |->
                                          [h |-> hs[i], dup |-> th[t].decided[i]]],
                                      LAMBDA e : ~e.dup)
            IN  /\ Len(th[t].result.holdings) = Len(accepted)
                /\ \A i \in 1..Len(accepted) :
                       i <= Len(th[t].result.holdings)
                       => th[t].result.holdings[i] = accepted[i].h
                /\ th[t].result.total_value
                       = SumSeq([i \in 1..Len(accepted) |-> accepted[i].h.valuation])

\* C8: the total_value returned for an NSDL statement equals the sum of the
\* valuations of the holdings returned with it.
C8_NsdlTotalIsSum ==
    (pout.done /\ pin.parser = "nsdl_parser") =>
        pout.total_value = ValuationUpTo(pout.holdings, Len(pout.holdings))

\* C9: parse_cdsl_ecas_text returns as total_value the sum of the valuations
\* of the holdings it returns, whatever the statement's footer says.
C9_CdslTotalIsSum ==
    (pout.done /\ pin.parser = "cdsl_parser") =>
        pout.total_value = SumSeq([i \in 1..Len(pout.holdings) |->
                                      pout.holdings[i].valuation])

\* a statement whose printed footer disagrees with the sum of its holdings
C9_Witness ==
    /\ pout.done
    /\ pin.parser = "cdsl_parser"
    /\ pout.holdings # <<>>
    /\ \E i \in 1..Len(pin.rows) : pin.rows[i].kind = "FOOTER"
    /\ FooterTotal(pin.rows) # pout.total_value

\* C10: parse_ecas_text of ecasparser returns as total_value the sum of the
\* valuations of all the holdings it returns.
C10_EcasTotalIsSum ==
    (pout.done /\ pin.parser = "ecasparser") =>
        pout.total_value = SumValuation(pout.holdings)

\* C11: no holding returned for an NSDL statement, by the parser or by the
\* processor, has an isin containing "INFRASTRUCTURE".
C11_NoInfrastructureIsin ==
    (pout.done /\ pin.parser = "nsdl_parser") =>
        /\ \A i \in 1..Len(pout.parsed) : ~IsInfrastructure(pout.parsed[i].isin_no)
        /\ \A i \in 1..Len(pout.holdings) : ~IsInfrastructure(pout.holdings[i].isin_no)

\* a holding came out of the pattern loops with valuation 0, units > 0, nav > 0
ZeroValued(h) == h.valuation = 0 /\ h.units > 0 /\ h.nav > 0

\* v is units x nav rounded to 2 decimals (amounts in thousandths)
IsProductTo2Decimals(v, units, nav) ==
    /\ v % 10 = 0
    /\ v * 1000 - units * nav <= 5000
    /\ units * nav - v * 1000 <= 5000

\* C12 as stated: every holding parse_nsdl_ecas_text returns whose parsed
\* valuation is zero with units > 0 and nav > 0 has valuation = units x nav
\* rounded to 2 decimals, so no returned holding has valuation 0 with positive
\* units and nav.
C12_BackfillLeavesNoZero ==
    (pout.done /\ pin.parser = "nsdl_parser") =>
        LET raw == NsdlRawHoldings(pin.rows)
        IN  /\ \A i \in 1..Len(pout.parsed) :
                   ZeroValued(raw[i]) =>
                       IsProductTo2Decimals(pout.parsed[i].valuation,
                                            raw[i].units, raw[i].nav)
            /\ \A i \in 1..Len(pout.parsed) : ~ZeroValued(pout.parsed[i])

\* C12 amended: every holding parse_nsdl_ecas_text returns whose parsed
\* valuation is zero with units > 0 and nav > 0 has valuation = units x nav
\* rounded to 2 decimals; a returned holding has valuation 0 with positive
\* units and nav only when units x nav rounds to 0.00.
C12_BackfillIsRoundedProduct ==
    (pout.done /\ pin.parser = "nsdl_parser") =>
        LET raw == NsdlRawHoldings(pin.rows)
        IN  /\ Len(raw) = Len(pout.parsed)
            /\ \A i \in 1..Len(pout.parsed) :
                   ZeroValued(raw[i]) =>
                       IsProductTo2Decimals(pout.parsed[i].valuation,
                                            raw[i].units, raw[i].nav)
            /\ \A i \in 1..Len(pout.parsed) :
                   ZeroValued(pout.parsed[i]) =>
                       pout.parsed[i].units * pout.parsed[i].nav <= 5000

\* units = 100, nav = 10.5, value 0 comes back as 1050.00
C12_Witness ==
    /\ pout.done
    /\ pin.parser = "nsdl_parser"
    /\ \E i \in 1..Len(pout.parsed) :
          /\ ZeroValued(NsdlRawHoldings(pin.rows)[i])
          /\ pout.parsed[i].units = 100000
          /\ pout.parsed[i].nav = 10500
          /\ pout.parsed[i].valuation = 1050000

\* an extractor call over an encrypted document with no or a wrong password
LockedCallDone == ex.pc = "done" /\ ex.needs_pass /\ ex.password # "right"

\* C13: in every issuer's block extractor, opening an encrypted document with
\* a missing or wrong password fails with the invalid-password error; no text
\* is extracted and no holdings are produced from it.
C13_InvalidPasswordRejected ==
    LockedCallDone =>
        /\ ex.error = "InvalidPassword"
        /\ ~ex.returned
        /\ ex.text = <<>>
        /\ ex.holdings = <<>>

\* C14: whatever way a block extractor is left, by return or by a password
\* error, the document handle it opened is closed.
C14_HandleClosedOnExit ==
    ex.pc = "done" => ex.handle = "closed"

\* C15: a file processed under a declared issuer type whose text holds none
\* of that issuer's marker phrases is rejected before any holding is
\* extracted or stored: no processor gets to its loop, or returns, on it.
C15_FormatMismatchRejected ==
    \A t \in Threads :
        (th[t].pc \in {"check", "insert", "commit"} \/ Returned(t))
        => HasMarker(th[t].issuer, th[t].text)

\* the (category, sub_category) pairs of the taxonomy
Taxonomy ==
    {Unclassified}
    \cup {[category |-> ClassifyRules[i].category,
           sub_category |-> ClassifyRules[i].sub_category] :
             i \in 1..Len(ClassifyRules)}

\* C16: classify_instrument is total: for every non-empty name it returns a
\* (category, sub_category) pair, and it returns (Unclassified, Unknown) only
\* when no rule of the chain matches the name.
C16_ClassifierTotal ==
    (cls.done /\ cls.name # <<>>) =>
        /\ [category |-> cls.category, sub_category |-> cls.sub_category] \in Taxonomy
        /\ (cls.category = "Unclassified" /\ cls.sub_category = "Unknown")
           => \A i \in 1..Len(ClassifyRules) : ~RuleMatches(ClassifyRules[i], cls.name)

\* a name no rule matches comes back as (Unclassified, Unknown)
C16_Witness ==
    /\ cls.done
    /\ cls.name = <<"ACME", "HDFC">>
    /\ cls.category = "Unclassified"
    /\ cls.sub_category = "Unknown"

\* the number of mark_seen calls made for the holding at position pos
MarkCalls(t, pos) ==
    Cardinality({i \in 1..Len(th[t].mark_calls) : th[t].mark_calls[i] = pos})

\* C17: in every processor mark_seen(h) is called exactly once for each
\* holding whose INSERT into portfolios was executed, only after is_duplicate
\* returned false for it, and never for a holding that was diverted to
\* portfolio_duplicates or skipped.
C17_MarkSeenOncePerInsert ==
    \A t \in Threads :
        (th[t].pc \in {"check", "insert", "commit"} \/ Returned(t)) =>
            \A pos \in 1..Len(th[t].holdings) :
                IF InTable(th[t].txp \o portfolios, th[t].fid, pos)
                THEN /\ MarkCalls(t, pos) = 1
                     /\ pos <= Len(th[t].decided)
                     /\ ~th[t].decided[pos]
                ELSE MarkCalls(t, pos) = 0

\* a file of which one holding was inserted and marked, one skipped by the
\* NSDL filters or diverted as a duplicate and not marked
C17_Witness ==
    \E t \in Threads :
        /\ Returned(t)
        /\ \E i, j \in 1..Len(th[t].holdings) :
              /\ InTable(portfolios, th[t].fid, i)
              /\ MarkCalls(t, i) = 1
              /\ ~InTable(portfolios, th[t].fid, j)
              /\ MarkCalls(t, j) = 0

\* C18: in the NSDL pipeline equity rows of one statement with the same ISIN,
\* units and valuation are collapsed to one, and every equity row that shares
\* an ISIN with an earlier row and has a different valuation is kept and
\* inserted.
C18_EquityLotsKept ==
    \A t \in Threads :
        (Returned(t) /\ th[t].issuer = "NSDL") =>
            LET hs == th[t].holdings
                Equity(i) == hs[i].type = "Shares"
            IN  /\ \A i, j \in 1..Len(hs) :
                       (i < j /\ Equity(i) /\ Equity(j))
                       => ~SameTriple(hs[i], hs[j])
                /\ \A j \in 1..Len(hs) :
                       (/\ Equity(j)
                        /\ \E i \in 1..(j - 1) :
                              /\ Equity(i)
                              /\ hs[i].isin_no = hs[j].isin_no
                              /\ hs[i].valuation # hs[j].valuation)
                       => InTable(portfolios, th[t].fid, j)

\* the equity patterns that match a row, most specific first
MatchingEquityPatterns(r) ==
    SelectSeq(equity_patterns, LAMBDA pat : EquityMatches(<<r>>, pat) # <<>>)

\* C19: the NSDL equity patterns are tried in order and the first match wins:
\* a row an equity pattern matches yields one equity holding, that of the
\* first pattern matching it, and is added to total_value once.
C19_FirstEquityPatternWins ==
    (pout.done /\ pin.parser = "nsdl_parser") =>
        LET rows == SelectSeq(pin.rows, LAMBDA r : MatchingEquityPatterns(r) # <<>>)
            first == [i \in 1..Len(rows) |->
                         MidHolding(rows[i], MatchingEquityPatterns(rows[i])[1], "Shares")]
            shares == SelectSeq(pout.parsed, LAMBDA h : h.type = "Shares")
        IN  /\ Len(shares) = Len(rows)
            /\ \A i \in 1..Len(rows) :
                   i <= Len(shares) =>
                       /\ shares[i].isin_no = first[i].isin_no
                       /\ shares[i].units = first[i].units
                       /\ shares[i].nav = first[i].nav
            /\ (Len(shares) = Len(pout.parsed))
               => pout.total_value = SumSeq([i \in 1..Len(rows) |-> first[i].valuation])

\* C20: for a CDSL equity row whose parsed value is zero while units and nav
\* are both non-zero, the emitted holding has valuation = units x nav and
\* keeps the parsed nav.
C20_CdslZeroValueBackfilled ==
    (pout.done /\ pin.parser \in {"cdsl_parser", "ecasparser"}) =>
        \A i \in 1..Len(pin.rows) :
            LET r == pin.rows[i]
            IN  (r.kind = "EQ" /\ r.value = 0 /\ r.units # 0 /\ r.nav # 0) =>
                    /\ \E k \in 1..Len(pout.parsed) : pout.parsed[k].isin_no = r.isin
                    /\ \A k \in 1..Len(pout.parsed) :
                           pout.parsed[k].isin_no = r.isin =>
                               /\ pout.parsed[k].nav = r.nav
                               /\ pout.parsed[k].valuation * 1000 = r.units * r.nav

\* C21: for every CDSL equity row, when the parsed nav exceeds the parsed
\* value the two are exchanged, so every Shares holding emitted by
\* parse_cdsl_ecas_text has nav <= valuation, and a row whose nav exceeded its
\* value comes out with the two columns exchanged.
C21_CdslSharesNavAtMostValuation ==
    (pout.done /\ pin.parser = "cdsl_parser") =>
        /\ \A k \in 1..Len(pout.parsed) :
               pout.parsed[k].type = "Shares" => pout.parsed[k].nav <= pout.parsed[k].valuation
        /\ \A i \in 1..Len(pin.rows) :
               LET r == pin.rows[i]
               IN  (r.kind = "EQ" /\ r.name # "Portfolio Value" /\ r.nav > r.value) =>
                       \E k \in 1..Len(pout.parsed) :
                           /\ pout.parsed[k].isin_no = r.isin
                           /\ pout.parsed[k].nav = r.value
                           /\ pout.parsed[k].valuation = r.nav

\* a parsed statement with an equity row whose nav column exceeds its value
C21_Witness ==
    /\ pout.done
    /\ pin.parser = "cdsl_parser"
    /\ \E i \in 1..Len(pin.rows) :
           /\ pin.rows[i].kind = "EQ"
           /\ pin.rows[i].nav > pin.rows[i].value
           /\ pin.rows[i].value > 0
    /\ \E k \in 1..Len(pout.parsed) :
           /\ pout.parsed[k].type = "Shares"
           /\ pout.parsed[k].nav < pout.parsed[k].valuation

\* the left block of the pair that produced a CAMS holding: the k-th pair with
\* a right block of three decimals or more
HoldingPairs(rows, pairs) ==
    SelectSeq(pairs, LAMBDA p : Len(rows[p[2]].nums) >= 3)

\* C22: for every CAMS block pair, the holding's valuation equals the left
\* block's market value whenever the left block contains a market-value line
\* (whatever its amount), and equals units x nav rounded to 2 decimals only
\* when the left block has no market-value line.
C22_CamsValuationFromMarketValue ==
    (pout.done /\ pin.parser = "cams_parser") =>
        LET hp == HoldingPairs(pin.rows, pout.pairs)
        IN  /\ Len(hp) = Len(pout.holdings)
            /\ \A k \in 1..Len(hp) :
                   LET left == pin.rows[hp[k][1]]
                       h == pout.holdings[k]
                   IN  IF left.mv # <<>>
                       THEN h.valuation = left.mv[Len(left.mv)]
                       ELSE IsProductTo2Decimals(h.valuation, h.units, h.nav)

\* the blocks of a pair
PairBlocks(p) == {p[1], p[2]}

\* C30: in parse_cams_two_column every block takes part in at most one
\* left/right pair, every pair's right block lies 1 to 5 positions after its
\* left block with a vertical distance of at most 5, and each pair yields at
\* most one holding, whose valuation is added to total_value exactly once.
C30_CamsPairsDisjointAndBounded ==
    (pout.done /\ pin.parser = "cams_parser") =>
        LET pairs == pout.pairs
            hp == HoldingPairs(pin.rows, pairs)
        IN  /\ \A a, b \in 1..Len(pairs) :
                   a # b => PairBlocks(pairs[a]) \cap PairBlocks(pairs[b]) = {}
            /\ \A a \in 1..Len(pairs) :
                   /\ pairs[a][2] - pairs[a][1] \in 1..5
                   /\ Abs(pin.rows[pairs[a][2]].y - pin.rows[pairs[a][1]].y) <= 5
                   /\ pin.rows[pairs[a][1]].folio
                   /\ pin.rows[pairs[a][2]].isin # NoIsin
            /\ Len(pout.holdings) = Len(hp)
            /\ Len(pout.holdings) <= Len(pairs)
            /\ \A k \in 1..Len(hp) :
                   /\ pout.holdings[k].isin_no = pin.rows[hp[k][2]].isin
                   /\ pout.holdings[k].fund_name = pin.rows[hp[k][1]].scheme
            /\ pout.total_value = SumValuation(pout.holdings)

\* a page where a left block finds the only aligned right block already
\* consumed by the left block before it
C30_Witness ==
    /\ pout.done
    /\ pin.parser = "cams_parser"
    /\ Len(pout.pairs) = 1
    /\ Len(pout.holdings) = 1
    /\ \E i \in 1..Len(pin.rows) :
           /\ pin.rows[i].folio
           /\ i \notin PairBlocks(pout.pairs[1])
           /\ pout.pairs[1][2] \in (i + 1)..(i + 5)
           /\ Abs(pin.rows[pout.pairs[1][2]].y - pin.rows[i].y) <= 5

\* the result of a rule
RuleResult(r) == [category |-> r.category, sub_category |-> r.sub_category]

\* what the classifier returned
Classified == [category |-> cls.category, sub_category |-> cls.sub_category]

\* the rule groups in the order Commodity/REIT -> Hybrid -> ELSS -> market
\* cap -> flexi/multi cap -> focused -> value/contra -> dividend yield ->
\* sectoral -> index -> generic equity -> debt -> fund of funds ->
\* international -> word fallback
SpecifiedOrder ==
    << SubSeq(HeadRules, 3, 6), hybrid_patterns, SubSeq(EquityRules, 1, 1),
       SubSeq(EquityRules, 2, 5), SubSeq(EquityRules, 6, 7), SubSeq(EquityRules, 8, 8),
       SubSeq(EquityRules, 9, 10), SubSeq(EquityRules, 11, 11), sectoral_keywords,
       SubSeq(IndexRules, 1, 1), SubSeq(IndexRules, 2, 2), debt_patterns,
       FundOfFundsRules, international_patterns, InferenceRules >>

\* the same order behind the solution-oriented group (retirement, children)
SolutionOrientedFirst == <<SubSeq(HeadRules, 1, 2)>> \o SpecifiedOrder

GroupMatches(group, name) ==
    \E i \in 1..Len(group) : RuleMatches(group[i], name)

\* the result is that of a matching rule of the earliest group that matches
EarliestGroupDecides(order, name) ==
    \A g \in 1..Len(order) :
        (/\ GroupMatches(order[g], name)
         /\ \A e \in 1..(g - 1) : ~GroupMatches(order[e], name))
        => \E i \in 1..Len(order[g]) :
               /\ RuleMatches(order[g][i], name)
               /\ Classified = RuleResult(order[g][i])

CommodityResults ==
    {RuleResult(HeadRules[i]) : i \in 3..6}

\* C23 as stated: the rules apply in the order Commodity/REIT -> Hybrid ->
\* ... -> word fallback, a name matching several rules gets the result of the
\* earliest, and a name containing a Commodity/REIT keyword is always
\* classified by the Commodity/REIT rule.
C23_CommodityRuleFirst ==
    (cls.done /\ cls.name # <<>>) =>
        /\ EarliestGroupDecides(SpecifiedOrder, cls.name)
        /\ GroupMatches(SubSeq(HeadRules, 3, 6), cls.name)
               => Classified \in CommodityResults

\* C23, amended: the rules apply in the order solution oriented ->
\* Commodity/REIT -> Hybrid -> ... -> word fallback, a name matching several
\* rules gets the result of the earliest, and a name containing a
\* Commodity/REIT keyword and no solution-oriented keyword is always
\* classified by the Commodity/REIT rule.
C23_SolutionOrientedThenCommodity ==
    (cls.done /\ cls.name # <<>>) =>
        /\ EarliestGroupDecides(SolutionOrientedFirst, cls.name)
        /\ (/\ GroupMatches(SubSeq(HeadRules, 3, 6), cls.name)
            /\ ~GroupMatches(SubSeq(HeadRules, 1, 2), cls.name))
               => Classified \in CommodityResults

\* a classified name with a Commodity/REIT keyword and a keyword of a later
\* group, and no solution-oriented keyword
C23_Witness ==
    /\ cls.done
    /\ GroupMatches(SubSeq(HeadRules, 3, 6), cls.name)
    /\ GroupMatches(hybrid_patterns, cls.name)
    /\ ~GroupMatches(SubSeq(HeadRules, 1, 2), cls.name)
    /\ Classified \in CommodityResults

\* C24: each market-cap tier is attainable: a name containing "large & mid
\* cap" and no keyword of an earlier rule group is classified (Equity, Large &
\* Mid Cap), distinct from the results for small, mid and large cap names.
C24_LargeAndMidCapAttainable ==
    (/\ cls.done
     /\ Contains(cls.name, "large & mid cap")
     /\ ~GroupMatches(HeadRules, cls.name)
     /\ ~GroupMatches(hybrid_patterns, cls.name)
     /\ ~GroupMatches(SubSeq(EquityRules, 1, 1), cls.name))
        => Classified = [category |-> "Equity", sub_category |-> "Large & Mid Cap"]

\* C25: clean_fund_name bypasses cleanup only for government securities; for
\* every other instrument type the result is the whitespace-collapsed name
\* truncated at the first boilerplate marker, with trailing separators
\* stripped, so the cleaned name of a non-government holding never contains
\* "#", a run of blanks or a trailing separator.
C25_CleanedNameHasNoMarker ==
    (pout.done /\ pin.parser = "clean_fund_name" /\ pin.htype # "Govt Security") =>
        LET cleaned == Words[pout.name]
        IN  /\ \A i \in 1..Len(cleaned) : cleaned[i] \notin {"#", ""}
            /\ cleaned # <<>> => cleaned[Len(cleaned)] \notin {"-", ",", "/", ":"}

\* thread t runs the duplicate test in this step
IsDuplicateCalled(t) ==
    /\ th[t].pc = "check"
    /\ Len(th'[t].decided) = Len(th[t].decided) + 1

\* C26: under the check-then-mark protocol of the processors (mark_seen only
\* after is_duplicate returned false) every signature in the dedup state has
\* exactly one recorded source file at all times, the first file that
\* contributed it, and is_duplicate itself never changes the dedup state.
C26_OneSourcePerSignature ==
    /\ [](\A e \in seen : SeenSources(seen, e.key) = {e.source})
    /\ [][/\ \A t \in Threads : IsDuplicateCalled(t) => seen' = seen
          /\ \A e \in seen :
                \/ seen' = {}
                \/ SeenSources(seen', e.key) = {e.source}]_vars

\* a row of tbl records the holding the dedup entry e was marked for
RowFor(tbl, e) ==
    \E i \in 1..Len(tbl) :
        /\ holding_key(tbl[i].h) = e.key
        /\ tbl[i].h.source_file = e.source

\* C27: if a processor aborts with a database error and rolls back its
\* inserts, the dedup state holds no entry added for that file's holdings:
\* every signature marked seen belongs to a holding whose insertion was
\* committed, or is still part of a transaction in progress.
C27_SeenOnlyCommitted ==
    \A e \in seen :
        \/ RowFor(portfolios, e)
        \/ \E t \in Threads :
              /\ th[t].pc \in {"check", "insert", "commit"}
              /\ RowFor(th[t].txp, e)

\* the Mutual Fund Folio holdings of a parsed statement
FolioHoldings(holdings) ==
    {holdings[k] : k \in {i \in 1..Len(holdings) : holdings[i].type = "Mutual Fund Folio"}}

\* C28: the dedup signature of an NSDL Mutual Fund Folio holding does not
\* depend on the row's position in its statement: the same folio (same base
\* ISIN, units, valuation) parsed from this statement and from any other
\* statement of the batch has equal signatures, whatever the number of folio
\* rows before it in each.
C28_FolioSignaturePositionFree ==
    (pout.done /\ pin.parser = "nsdl_parser") =>
        \A other \in SeqsUpTo(NsdlTextRows, MaxRows) :
            \A a \in FolioHoldings(pout.parsed) :
                \A b \in FolioHoldings(parse_nsdl_ecas_text(other).holdings) :
                    (/\ BaseIsin(a.isin_no) = BaseIsin(b.isin_no)
                     /\ a.units = b.units
                     /\ a.valuation = b.valuation)
                    => holding_key(a) = holding_key(b)

\* C29: in process_nsdl_file every holding of the final holdings list (after
\* folio suppression and exact-equity collapsing) is written to exactly one of
\* portfolios or portfolio_duplicates, so the list returned to the caller and
\* the rows persisted describe the same set of holdings.
C29_NsdlReturnedIsPersisted ==
    \A t \in Threads :
        (Returned(t) /\ th[t].issuer = "NSDL") =>
            /\ \A k \in 1..Len(th[t].result.holdings) :
                   InTable(portfolios, th[t].fid, k)
                       # InTable(portfolio_duplicates, th[t].fid, k)
            /\ \A tbl \in {portfolios, portfolio_duplicates} :
                   \A i \in 1..Len(tbl) :
                       tbl[i].fid = th[t].fid =>
                           /\ tbl[i].pos \in 1..Len(th[t].result.holdings)
                           /\ SameTriple(tbl[i].h, th[t].result.holdings[tbl[i].pos])

=============================================================================
